---- MODULE Spec2Model ----
(***************************************************************************)
(* Model of unity-setup's entry point (src/index.ts): the phase dispatcher *)
(* main(), the main phase setup(), the post phase post(), the cache key    *)
(* builder getInstallationCacheKey() and isInstallationPathValid().        *)
(*                                                                         *)
(* Strings are sequences of atoms, so that concatenation, prefixes and the *)
(* empty string are what they are in the code.  One logical run is two     *)
(* process invocations of the same script; the only thing the second one   *)
(* inherits from the first is the host's state store (core.saveState /     *)
(* core.getState).  The remote cache outlives runs.                        *)
(***************************************************************************)
EXTENDS Integers, Sequences, FiniteSets, TLC

VARIABLES
    run,              \* number of the current logical run
    entry,            \* the entry point the host started last in this run:
                      \* "none", "main" (the step) or "post" (its post hook)
    platform,         \* process.platform of this run's runner
    versions,         \* ValidateInputs().versions (ordered)
    modules,          \* ValidateInputs().modules (ordered)
    cacheInstallation,\* the raw 'cache-installation' input
    state,            \* the host's cross-phase state store (STATE_* of the run)
    remoteCache,      \* keys the remote cache service holds
    pc,               \* position of the running process, "idle" when none runs
    unityProjectPath, \* setup(): const unityProjectPath (line 59)
    cacheKey,         \* setup(): const cacheKey (line 93)
    unityInstallPath, \* setup()/post(): const unityInstallPath (lines 92, 153)
    installedEditors, \* setup(): installedEditors.length (line 106)
    cacheAtRunStart,  \* history: what the remote cache held when this run began
    startState,       \* history: the state store as the current invocation found it
    restoreKey,       \* history: what restoreCache returned in this run (line 96)
    probe,            \* history: the path post() validated and what fs.access did
    events,           \* history: what the run did so far, in order
    lastCall          \* history: the collaborator call made by the latest step

vars == <<run, entry, platform, versions, modules,
          cacheInstallation, state, remoteCache, pc, unityProjectPath, cacheKey,
          unityInstallPath, installedEditors, cacheAtRunStart, startState,
          restoreKey, probe,
          events, lastCall>>

----------------------------------------------------------------------------
(* Bounds of the model *)

MaxRuns == 2

MaxVersions == 2

Platforms == {"linux"}

VersionNames == {<<"6000.0.1f1">>}

(* The module lists a run may ask for: none, or the one the code looks at. *)
ModuleLists == {<<>>, <<<<"android">>>>}

CacheInstallationInputs == {"true", "TRUE", "false"}

AutoUpdateInputs == {"true", "TRUE", "false"}

HubVersionInputs == {<<>>, <<"3.12.0">>}

InstallPaths == {<<>>, <<"/opt/unity">>}

SeqsUpTo(S, n) == UNION {[1..k -> S] : k \in 0..n}

----------------------------------------------------------------------------
(* Values *)

EmptyString == <<>>

Undefined == <<"undefined">>

Throws == <<"throws">>

NotCalled == <<"not called">>

ProjectPaths == {Undefined, <<"/proj">>}

NoKeys == [primaryKey |-> EmptyString, restoreKeys |-> <<>>]

NoCall == [op |-> "none", args |-> <<>>]

NoProbe == [path |-> NotCalled, readable |-> FALSE]

IsPrefix(p, s) == Len(p) <= Len(s) /\ SubSeq(s, 1, Len(p)) = p

----------------------------------------------------------------------------
(* @actions/core: saveState / getState over string values *)

(* toCommandValue: a boolean is JSON.stringify'ed *)
toCommandValue(b) == IF b THEN <<"true">> ELSE <<"false">>

saveState(st, name, value) ==
    [k \in DOMAIN st \cup {name} |-> IF k = name THEN value ELSE st[k]]

(* getState: process.env[`STATE_${name}`] || '' *)
getState(st, name) == IF name \in DOMAIN st THEN st[name] ELSE EmptyString

NoState == [k \in {} |-> EmptyString]

(* Mutant: the flag is compared with a value the store never holds. *)
IS_POST_ComparedToBoolean(st) == getState(st, "isPost") = <<"True">>

(* line 11: const IS_POST = !!core.getState('isPost') *)
IS_POST(st) == getState(st, "isPost") # EmptyString

----------------------------------------------------------------------------
(* getInstallationCacheKey, lines 33-51 *)

RECURSIVE AppendAndRecord(_, _, _)
AppendAndRecord(key, keys, items) ==
    IF items = <<>>
    THEN [key |-> key, keys |-> keys]
    ELSE LET k == key \o <<"-">> \o Head(items)
         IN  AppendAndRecord(k, Append(keys, k), Tail(items))

(* Mutant: the key is recorded before the element is appended to it. *)
RECURSIVE RecordAndAppend(_, _, _)
RecordAndAppend(key, keys, items) ==
    IF items = <<>>
    THEN [key |-> key, keys |-> keys]
    ELSE RecordAndAppend(key \o <<"-">> \o Head(items), Append(keys, key),
                         Tail(items))

getInstallationCacheKeyRecordedEarly(plat, vs, ms) ==
    LET base == <<"unity-setup-", plat>>
        a    == RecordAndAppend(base, <<>>, vs)
        b    == RecordAndAppend(a.key, a.keys, ms)
    IN  [primaryKey |-> b.key, restoreKeys |-> b.keys]

(* Mutant: the modules are appended before the versions. *)
getInstallationCacheKeyModulesFirst(plat, vs, ms) ==
    LET base == <<"unity-setup-", plat>>
        a    == AppendAndRecord(base, <<>>, ms)
        b    == AppendAndRecord(a.key, a.keys, vs)
    IN  [primaryKey |-> b.key, restoreKeys |-> b.keys]

getInstallationCacheKey(plat, vs, ms) ==
    LET base == <<"unity-setup-", plat>>
        a    == AppendAndRecord(base, <<>>, vs)
        b    == AppendAndRecord(a.key, a.keys, ms)
    IN  [primaryKey |-> b.key, restoreKeys |-> b.keys]

(* Mutant: the failed access probe is not turned into false. *)
isInstallationPathValidIgnoringAccess(path, accessOk) ==
    IF path = Undefined \/ Len(path) = 0
    THEN FALSE
    ELSE TRUE

(* Mutant: the emptiness test of lines 167-169 is left out. *)
isInstallationPathValidWithoutEmptyTest(path, accessOk) == accessOk

(* isInstallationPathValid, lines 166-178; accessOk is what fs.access does *)
isInstallationPathValid(path, accessOk) ==
    IF path = Undefined \/ Len(path) = 0
    THEN FALSE
    ELSE accessOk

(* Mutant: the cache block runs whatever the input says. *)
cacheInstallationInputIgnored(input) == TRUE

(* line 89: getInput('cache-installation')?.toLowerCase() === 'true' *)
toLowerCase(s) == IF s = "TRUE" THEN "true" ELSE s

cacheInstallationInput(input) == toLowerCase(input) = "true"

(* lines 67-72: the auto-update flag handed to the hub installer *)
(* Mutant: an explicit hub version does not switch auto-update off. *)
autoUpdateFlagWithoutOverride(autoUpdate, hubVersion) == autoUpdate

autoUpdateFlag(autoUpdate, hubVersion) ==
    IF autoUpdate = "true" /\ hubVersion # EmptyString /\ Len(hubVersion) > 0
    THEN "false"
    ELSE autoUpdate

(* What the remote cache service can answer to restoreCache(paths, primary, *)
(* restoreKeys): a held key that is the primary key or extends a restore   *)
(* key, or undefined (no match, or a degraded service).                    *)
restoreAnswers(cache, keys) ==
    {Undefined} \cup
    {k \in cache : \/ k = keys.primaryKey
                   \/ \E i \in 1..Len(keys.restoreKeys) :
                         IsPrefix(keys.restoreKeys[i], k)}

----------------------------------------------------------------------------
Inputs ==
    /\ platform \in Platforms
    /\ versions \in SeqsUpTo(VersionNames, MaxVersions)
    /\ modules \in ModuleLists
    /\ cacheInstallation \in CacheInstallationInputs

Init ==
    /\ run = 1
    /\ entry = "none"
    /\ Inputs
    /\ state = NoState
    /\ remoteCache = {}
    /\ cacheAtRunStart = {}
    /\ pc = "idle"
    /\ cacheKey = NoKeys
    /\ unityProjectPath = Undefined
    /\ unityInstallPath = EmptyString
    /\ installedEditors = 0
    /\ startState = NoState
    /\ restoreKey = NotCalled
    /\ probe = NoProbe
    /\ events = <<>>
    /\ lastCall = NoCall

inputVars == <<platform, versions, modules, cacheInstallation, cacheAtRunStart>>

locals == <<unityProjectPath, cacheKey, unityInstallPath, installedEditors>>

(* The process ends: its locals are gone. *)
Exit ==
    /\ pc' = "idle"
    /\ cacheKey' = NoKeys
    /\ unityProjectPath' = Undefined
    /\ unityInstallPath' = EmptyString
    /\ installedEditors' = 0

(* lines 20-22: main()'s catch marks the run failed; the process ends. *)
Catch(done) ==
    /\ events' = events \o done \o <<"setFailed">>
    /\ Exit

(* The host starts the next logical run: a fresh state store. *)
NextRun ==
    /\ pc = "idle"
    /\ entry = "post"
    /\ run < MaxRuns
    /\ run' = run + 1
    /\ entry' = "none"
    /\ versions' \in SeqsUpTo(VersionNames, MaxVersions)
    /\ modules' \in ModuleLists
    /\ cacheInstallation' \in CacheInstallationInputs
    /\ cacheAtRunStart' = remoteCache
    /\ state' = NoState
    /\ startState' = NoState
    /\ restoreKey' = NotCalled
    /\ probe' = NoProbe
    /\ events' = <<>>
    /\ lastCall' = NoCall
    /\ UNCHANGED <<platform, remoteCache, pc, cacheKey, unityProjectPath,
                   unityInstallPath, installedEditors>>

(* lines 11-19: the host runs the script, first as the step and then as   *)
(* its post hook; main() dispatches on IS_POST.                            *)
main ==
    /\ pc = "idle"
    /\ entry # "post"
    /\ entry' = IF entry = "none" THEN "main" ELSE "post"
    /\ startState' = state
    /\ IF ~IS_POST(state)
       THEN pc' = "validate" /\ events' = Append(events, "setup")
       ELSE pc' = "post" /\ events' = Append(events, "post")
    /\ lastCall' = NoCall
    /\ UNCHANGED <<run, inputVars, state, remoteCache, locals, restoreKey, probe>>

(* lines 59-65: ValidateInputs() *)
setupValidateInputs ==
    /\ pc = "validate"
    /\ \E projectPath \in ProjectPaths \cup {Throws} :
          IF projectPath # Throws
          THEN /\ pc' = "hub"
               /\ unityProjectPath' = projectPath
               /\ events' = events
               /\ UNCHANGED <<cacheKey, unityInstallPath, installedEditors>>
          ELSE Catch(<<"ValidateInputs throws">>)
    /\ lastCall' = [op |-> "ValidateInputs", args |-> <<>>]
    /\ UNCHANGED <<run, entry, inputVars, state, remoteCache, startState,
                   restoreKey, probe>>

(* lines 67-83: the hub installer *)
setupHub ==
    /\ pc = "hub"
    /\ \E autoUpdate \in AutoUpdateInputs, hubVersion \in HubVersionInputs,
          unityHubPath \in {Throws, EmptyString, <<"/opt/hub">>} :
          /\ lastCall' = [op |-> "UnityHub.Install",
                          args |-> <<autoUpdate, hubVersion,
                                     autoUpdateFlag(autoUpdate, hubVersion) = "true",
                                     hubVersion>>]
          /\ IF unityHubPath = Throws \/ Len(unityHubPath) = 0
             THEN Catch(<<"UnityHub.Install", "UnityHub.Install fails">>)
             ELSE /\ pc' = "setpath"
                  /\ events' = Append(events, "UnityHub.Install")
                  /\ UNCHANGED locals
    /\ UNCHANGED <<run, entry, inputVars, state, remoteCache, startState,
                   restoreKey, probe>>

(* lines 85-91: SetInstallPath when an install path is given, then the     *)
(* cache-installation switch                                               *)
setupSetInstallPath ==
    /\ pc = "setpath"
    /\ \E installPath \in InstallPaths, ok \in BOOLEAN :
          IF installPath # Undefined /\ Len(installPath) > 0
          THEN /\ lastCall' = [op |-> "SetInstallPath", args |-> <<installPath>>]
               /\ IF ok
                  THEN /\ pc' = IF cacheInstallationInput(cacheInstallation)
                                THEN "getpath" ELSE "editors"
                       /\ events' = events
                       /\ UNCHANGED locals
                  ELSE Catch(<<"SetInstallPath throws">>)
          ELSE /\ ok
               /\ lastCall' = NoCall
               /\ pc' = IF cacheInstallationInput(cacheInstallation)
                        THEN "getpath" ELSE "editors"
               /\ events' = events
               /\ UNCHANGED locals
    /\ UNCHANGED <<run, entry, inputVars, state, remoteCache, startState,
                   restoreKey, probe>>

(* Mutant: the cache-key state write is left out. *)
setupSaveCacheKeyForgotten ==
    /\ pc = "getpath"
    /\ \E path \in InstallPaths \cup {Throws} :
          /\ lastCall' = [op |-> "GetInstallPath", args |-> <<>>]
          /\ IF path = Throws
             THEN /\ Catch(<<"GetInstallPath throws">>)
                  /\ state' = state
             ELSE LET keys == getInstallationCacheKey(platform, versions, modules)
                  IN  /\ unityInstallPath' = path
                      /\ cacheKey' = keys
                      /\ state' = state
                      /\ events' = events
                      /\ pc' = "restore"
                      /\ UNCHANGED <<unityProjectPath, installedEditors>>
    /\ UNCHANGED <<run, entry, inputVars, remoteCache, startState, restoreKey, probe>>

(* lines 92-95: the install path, the key, and the cache-key state write *)
setupSaveCacheKey ==
    /\ pc = "getpath"
    /\ \E path \in InstallPaths \cup {Throws} :
          /\ lastCall' = [op |-> "GetInstallPath", args |-> <<>>]
          /\ IF path = Throws
             THEN /\ Catch(<<"GetInstallPath throws">>)
                  /\ state' = state
             ELSE LET keys == getInstallationCacheKey(platform, versions, modules)
                  IN  /\ unityInstallPath' = path
                      /\ cacheKey' = keys
                      /\ state' = saveState(state, "cache-key", keys.primaryKey)
                      /\ events' = Append(events, "saveState cache-key")
                      /\ pc' = "restore"
                      /\ UNCHANGED <<unityProjectPath, installedEditors>>
    /\ UNCHANGED <<run, entry, inputVars, remoteCache, startState, restoreKey, probe>>

(* Mutant: any key the restore call returns counts as a hit. *)
setupRestoreAnyMatchIsHit ==
    /\ pc = "restore"
    /\ \E answer \in restoreAnswers(remoteCache, cacheKey) \cup {Throws} :
          /\ lastCall' = [op |-> "restoreCache",
                          args |-> <<<<unityInstallPath>>, cacheKey.primaryKey,
                                     cacheKey.restoreKeys>>]
          /\ IF answer = Throws
             THEN /\ Catch(<<"restoreCache", "restoreCache throws">>)
                  /\ UNCHANGED <<state, restoreKey>>
             ELSE LET cacheHit == answer # Undefined
                  IN  /\ restoreKey' = answer
                      /\ state' = saveState(state, "cache-hit", toCommandValue(cacheHit))
                      /\ events' = events \o <<"restoreCache", "saveState cache-hit">>
                      /\ pc' = "editors"
                      /\ UNCHANGED locals
    /\ UNCHANGED <<run, entry, inputVars, remoteCache, startState, probe>>

(* Mutant: cache-hit is persisted only when the restore was an exact hit. *)
setupRestoreRecordingHitOnly ==
    /\ pc = "restore"
    /\ \E answer \in restoreAnswers(remoteCache, cacheKey) \cup {Throws} :
          /\ lastCall' = [op |-> "restoreCache",
                          args |-> <<<<unityInstallPath>>, cacheKey.primaryKey,
                                     cacheKey.restoreKeys>>]
          /\ IF answer = Throws
             THEN /\ Catch(<<"restoreCache", "restoreCache throws">>)
                  /\ UNCHANGED <<state, restoreKey>>
             ELSE LET cacheHit == answer = cacheKey.primaryKey
                  IN  /\ restoreKey' = answer
                      /\ state' = IF cacheHit
                                  THEN saveState(state, "cache-hit", toCommandValue(TRUE))
                                  ELSE state
                      /\ events' = events \o <<"restoreCache", "saveState cache-hit">>
                      /\ pc' = "editors"
                      /\ UNCHANGED locals
    /\ UNCHANGED <<run, entry, inputVars, remoteCache, startState, probe>>

(* lines 96-103: restoreCache and the cache-hit state write *)
setupRestore ==
    /\ pc = "restore"
    /\ \E answer \in restoreAnswers(remoteCache, cacheKey) \cup {Throws} :
          /\ lastCall' = [op |-> "restoreCache",
                          args |-> <<<<unityInstallPath>>, cacheKey.primaryKey,
                                     cacheKey.restoreKeys>>]
          /\ IF answer = Throws
             THEN /\ Catch(<<"restoreCache", "restoreCache throws">>)
                  /\ UNCHANGED <<state, restoreKey>>
             ELSE LET cacheHit == answer = cacheKey.primaryKey
                  IN  /\ restoreKey' = answer
                      /\ state' = saveState(state, "cache-hit", toCommandValue(cacheHit))
                      /\ events' = events \o <<"restoreCache", "saveState cache-hit">>
                      /\ pc' = "editors"
                      /\ UNCHANGED locals
    /\ UNCHANGED <<run, entry, inputVars, remoteCache, startState, probe>>

(* Mutant: after a cache hit the installer is not called. *)
setupGetEditorSkippedOnHit ==
    /\ pc = "editors"
    /\ installedEditors < Len(versions)
    /\ \E outcome \in {"ok", "GetEditor throws", "CheckAndroidSdkInstalled throws"} :
          LET unityVersion == versions[installedEditors + 1]
              android == (\E i \in 1..Len(modules) : modules[i] = <<"android">>)
                         /\ unityProjectPath # Undefined
          IN  /\ lastCall' = [op |-> "GetEditor", args |-> <<unityVersion, modules>>]
              /\ outcome = "CheckAndroidSdkInstalled throws" => android
              /\ getState(state, "cache-hit") = <<"true">> => outcome = "ok"
              /\ IF outcome = "ok"
                 THEN /\ installedEditors' = installedEditors + 1
                      /\ events' = IF getState(state, "cache-hit") = <<"true">>
                                   THEN events
                                   ELSE Append(events, "GetEditor")
                      /\ UNCHANGED <<pc, unityProjectPath, cacheKey, unityInstallPath>>
                 ELSE Catch(<<"GetEditor", outcome>>)
    /\ UNCHANGED <<run, entry, inputVars, state, remoteCache, startState,
                   restoreKey, probe>>

(* Mutant: a failed installation is swallowed and the loop goes on. *)
setupGetEditorSwallowingFailure ==
    /\ pc = "editors"
    /\ installedEditors < Len(versions)
    /\ \E outcome \in {"ok", "GetEditor throws", "CheckAndroidSdkInstalled throws"} :
          LET unityVersion == versions[installedEditors + 1]
              android == (\E i \in 1..Len(modules) : modules[i] = <<"android">>)
                         /\ unityProjectPath # Undefined
          IN  /\ lastCall' = [op |-> "GetEditor", args |-> <<unityVersion, modules>>]
              /\ outcome = "CheckAndroidSdkInstalled throws" => android
              /\ installedEditors' = installedEditors + 1
              /\ events' = IF outcome = "ok"
                           THEN Append(events, "GetEditor")
                           ELSE events \o <<"GetEditor", outcome>>
              /\ UNCHANGED <<pc, unityProjectPath, cacheKey, unityInstallPath>>
    /\ UNCHANGED <<run, entry, inputVars, state, remoteCache, startState,
                   restoreKey, probe>>

(* lines 108-120: one iteration of the install loop *)
setupGetEditor ==
    /\ pc = "editors"
    /\ installedEditors < Len(versions)
    /\ \E outcome \in {"ok", "GetEditor throws", "CheckAndroidSdkInstalled throws"} :
          LET unityVersion == versions[installedEditors + 1]
              android == (\E i \in 1..Len(modules) : modules[i] = <<"android">>)
                         /\ unityProjectPath # Undefined
          IN  /\ lastCall' = [op |-> "GetEditor", args |-> <<unityVersion, modules>>]
              /\ outcome = "CheckAndroidSdkInstalled throws" => android
              /\ IF outcome = "ok"
                 THEN /\ installedEditors' = installedEditors + 1
                      /\ events' = Append(events, "GetEditor")
                      /\ UNCHANGED <<pc, unityProjectPath, cacheKey, unityInstallPath>>
                 ELSE Catch(<<"GetEditor", outcome>>)
    /\ UNCHANGED <<run, entry, inputVars, state, remoteCache, startState,
                   restoreKey, probe>>

(* Mutant: the installation is saved to the cache at the end of setup(). *)
setupFinishSavingCache ==
    /\ pc = "editors"
    /\ installedEditors >= Len(versions)
    /\ IF installedEditors # Len(versions)
       THEN /\ Catch(<<"installed count mismatch">>)
            /\ state' = state
       ELSE /\ state' = saveState(state, "isPost", toCommandValue(TRUE))
            /\ events' = events \o <<"saveCache", "saveState isPost">>
            /\ Exit
    /\ lastCall' = NoCall
    /\ UNCHANGED <<run, entry, inputVars, remoteCache, startState, restoreKey, probe>>

(* lines 122-130: after the loop *)
setupFinish ==
    /\ pc = "editors"
    /\ installedEditors >= Len(versions)
    /\ IF installedEditors # Len(versions)
       THEN /\ Catch(<<"installed count mismatch">>)
            /\ state' = state
       ELSE /\ state' = saveState(state, "isPost", toCommandValue(TRUE))
            /\ events' = Append(events, "saveState isPost")
            /\ Exit
    /\ lastCall' = NoCall
    /\ UNCHANGED <<run, entry, inputVars, remoteCache, startState, restoreKey, probe>>

(* Mutant: the persisted cache-hit is compared with a value it never has. *)
postStartComparingHitToBoolean ==
    /\ pc = "post"
    /\ LET key      == getState(state, "cache-key")
           cacheHit == getState(state, "cache-hit") = <<"True">>
           saveCache == key # EmptyString /\ Len(key) > 0 /\ ~cacheHit
       IN  IF key = EmptyString
           THEN /\ events' = Append(events, "no cache key")
                /\ Exit
           ELSE IF cacheHit
           THEN /\ events' = Append(events, "cache hit")
                /\ Exit
           ELSE IF saveCache
           THEN /\ pc' = "savepath"
                /\ events' = events
                /\ UNCHANGED locals
           ELSE /\ events' = events
                /\ Exit
    /\ lastCall' = NoCall
    /\ UNCHANGED <<run, entry, inputVars, state, remoteCache, startState,
                   restoreKey, probe>>

(* Mutant: the missing cache-key does not end the post phase. *)
postStartWithoutKeyCheck ==
    /\ pc = "post"
    /\ LET key      == getState(state, "cache-key")
           cacheHit == getState(state, "cache-hit") = <<"true">>
           saveCache == ~cacheHit
       IN  IF FALSE
           THEN /\ events' = Append(events, "no cache key")
                /\ Exit
           ELSE IF cacheHit
           THEN /\ events' = Append(events, "cache hit")
                /\ Exit
           ELSE IF saveCache
           THEN /\ pc' = "savepath"
                /\ events' = events
                /\ UNCHANGED locals
           ELSE /\ events' = events
                /\ Exit
    /\ lastCall' = NoCall
    /\ UNCHANGED <<run, entry, inputVars, state, remoteCache, startState,
                   restoreKey, probe>>

(* lines 134-148: the post phase reads the store and decides *)
postStart ==
    /\ pc = "post"
    /\ LET key      == getState(state, "cache-key")
           cacheHit == getState(state, "cache-hit") = <<"true">>
           saveCache == key # EmptyString /\ Len(key) > 0 /\ ~cacheHit
       IN  IF key = EmptyString
           THEN /\ events' = Append(events, "no cache key")
                /\ Exit
           ELSE IF cacheHit
           THEN /\ events' = Append(events, "cache hit")
                /\ Exit
           ELSE IF saveCache
           THEN /\ pc' = "savepath"
                /\ events' = events
                /\ UNCHANGED locals
           ELSE /\ events' = events
                /\ Exit
    /\ lastCall' = NoCall
    /\ UNCHANGED <<run, entry, inputVars, state, remoteCache, startState,
                   restoreKey, probe>>

(* lines 152-158: the install path and its validation *)
postGetInstallPath ==
    /\ pc = "savepath"
    /\ \E path \in InstallPaths \cup {Undefined, Throws}, accessOk \in BOOLEAN :
          /\ lastCall' = [op |-> "GetInstallPath", args |-> <<>>]
          /\ IF path = Throws
             THEN /\ Catch(<<"GetInstallPath throws">>)
                  /\ probe' = probe
             ELSE /\ probe' = [path |-> path, readable |-> accessOk]
                  /\ IF ~isInstallationPathValid(path, accessOk)
                     THEN /\ events' = Append(events, "warning")
                          /\ Exit
                     ELSE /\ unityInstallPath' = path
                          /\ pc' = "save"
                          /\ events' = events
                          /\ UNCHANGED <<unityProjectPath, cacheKey, installedEditors>>
    /\ UNCHANGED <<run, entry, inputVars, state, remoteCache, startState,
                   restoreKey>>

(* lines 160-162: saveCache; const cacheKey of line 134 is still what the  *)
(* store holds, the post phase writes no state                             *)
postSave ==
    /\ pc = "save"
    /\ \E ok \in BOOLEAN :
          LET key == getState(state, "cache-key")
          IN  /\ lastCall' = [op |-> "saveCache",
                              args |-> <<<<unityInstallPath>>, key>>]
              /\ IF ok
                 THEN /\ remoteCache' = remoteCache \cup {key}
                      /\ events' = Append(events, "saveCache")
                      /\ Exit
                 ELSE /\ remoteCache' = remoteCache
                      /\ Catch(<<"saveCache", "saveCache throws">>)
    /\ UNCHANGED <<run, entry, inputVars, state, startState, restoreKey, probe>>

setup ==
    \/ setupValidateInputs
    \/ setupHub
    \/ setupSetInstallPath
    \/ setupSaveCacheKey
    \/ setupRestore
    \/ setupGetEditor
    \/ setupFinish

post ==
    \/ postStart
    \/ postGetInstallPath
    \/ postSave

Next ==
    \/ NextRun
    \/ main
    \/ setup
    \/ post

Spec == Init /\ [][Next]_vars

----------------------------------------------------------------------------
(* Reading the history *)

Count(e) == Cardinality({i \in 1..Len(events) : events[i] = e})

Happened(e) == \E i \in 1..Len(events) : events[i] = e

(* Where the current (or latest) invocation's events begin, 0 before any. *)
LastStart ==
    LET starts == {i \in 1..Len(events) : events[i] \in {"setup", "post"}}
    IN  IF starts = {} THEN 0 ELSE CHOOSE i \in starts : \A j \in starts : j <= i

(* Which phase the current (or latest) invocation was dispatched to. *)
Dispatched == IF LastStart = 0 THEN "none" ELSE events[LastStart]

Current == LET first == LastStart
           IN  IF first = 0 THEN {} ELSE first..Len(events)

InCurrent(e) == LET cur == Current IN \E i \in cur : events[i] = e

CountCurrent(e) == LET cur == Current IN Cardinality({i \in cur : events[i] = e})

LastEvent == IF events = <<>> THEN "none" ELSE events[Len(events)]

PrimaryKey == getInstallationCacheKey(platform, versions, modules).primaryKey

CacheKeyState == getState(state, "cache-key")

CacheHitState == getState(state, "cache-hit")

IsPostState == getState(state, "isPost")

(* The restore call of this run returned, and not the primary key. *)
Miss == restoreKey \notin {NotCalled, PrimaryKey}

StateWrites == {"saveState cache-key", "saveState cache-hit", "saveState isPost"}

CacheCalls == {"restoreCache", "saveCache"}

----------------------------------------------------------------------------
(* C1: hit path.  In a run whose restore call returned exactly the primary *)
(* key, the store holds cache-hit = "true" and no save call is ever made,  *)
(* neither by the main phase nor by the post phase of that run.            *)
C1_HitPath ==
    restoreKey = PrimaryKey =>
        /\ CacheHitState = <<"true">>
        /\ Count("saveCache") = 0
        /\ pc \notin {"savepath", "save"}

(* The post phase of a run that hit has run to its end. *)
C1_Witness ==
    /\ restoreKey = PrimaryKey
    /\ Dispatched = "post"
    /\ pc = "idle"
    /\ LastEvent = "cache hit"

(* C2: miss path.  When the restore call returned another key or nothing,  *)
(* the store holds cache-hit = "false"; and when the post phase of that    *)
(* run found the install path valid (non-empty and readable), it made      *)
(* exactly one save call, with that path and the persisted cache-key,      *)
(* which is the primary key the main phase computed.                       *)
C2_MissPath ==
    restoreKey # NotCalled =>
        LET primaryKey == PrimaryKey
        IN  restoreKey # primaryKey =>
              /\ CacheHitState = <<"false">>
              /\ ( /\ pc = "idle"
                   /\ probe.readable
                   /\ probe.path \notin {EmptyString, Undefined}
                   /\ Dispatched = "post" )
                 => /\ Count("saveCache") = 1
                    /\ CacheKeyState = primaryKey
                    /\ lastCall = [op |-> "saveCache",
                                   args |-> <<<<probe.path>>, CacheKeyState>>]

(* A run that restored a less specific key saved its installation. *)
C2_Witness ==
    /\ Miss
    /\ restoreKey # Undefined
    /\ Dispatched = "post"
    /\ pc = "idle"
    /\ probe.readable
    /\ LastEvent = "saveCache"
    /\ PrimaryKey \in remoteCache

(* C3: a failing restore call is non-fatal.  When restoreCache throws in   *)
(* the main phase, the invocation still ends with cache-hit = "false", one *)
(* installer call per requested version, isPost persisted, and the run not *)
(* marked failed.                                                          *)
C3_RestoreFailureIsNonFatal ==
    (InCurrent("restoreCache throws") /\ pc = "idle")
       => /\ CacheHitState = <<"false">>
          /\ CountCurrent("GetEditor") = Len(versions)
          /\ IsPostState = <<"true">>
          /\ ~InCurrent("setFailed")

(* C4: the post phase never marks the run failed, whatever fails in it.    *)
C4_PostNeverFailsTheRun ==
    Dispatched = "post" => ~InCurrent("setFailed")

(* C5: once the installer has failed in the main phase, the run is marked  *)
(* failed and no restore or save call follows, in that invocation or in    *)
(* the next one of the same run.                                           *)
C5_NoCacheCallAfterInstallerFailure ==
    \A i \in 1..Len(events) :
        events[i] \in {"GetEditor throws", "CheckAndroidSdkInstalled throws"}
           => /\ i < Len(events) /\ events[i + 1] = "setFailed"
              /\ \A j \in (i + 1)..Len(events) : events[j] \notin CacheCalls

(* C6: a post phase that finds no cache-key in the store makes no restore *)
(* and no save call, writes no state, and does not mark the run failed:    *)
(* all it does is report that there is no key.                             *)
C6_PostWithoutCacheKeyIsNoOp ==
    (entry = "post" /\ getState(startState, "cache-key") = EmptyString
                   /\ Dispatched = "post")
       => /\ state = startState
          /\ remoteCache = cacheAtRunStart
          /\ pc \in {"post", "idle"}
          /\ LET cur == Current
             IN  \A i \in cur : events[i] \in {"post", "no cache key"}

(* Such a post phase has run to its end. *)
C6_Witness ==
    /\ Dispatched = "post"
    /\ getState(startState, "cache-key") = EmptyString
    /\ pc = "idle"
    /\ LastEvent = "no cache key"

(* C7: in a post phase with cache-key present and cache-hit not "true",    *)
(* an install path that is empty or not readable ends the phase with a     *)
(* warning, without a save call and without marking the run failed.        *)
C7_InvalidInstallPathSkipsSave ==
    (probe # NoProbe /\ (probe.path \in {EmptyString, Undefined} \/ ~probe.readable)
                     /\ Dispatched = "post")
       => /\ CacheKeyState # EmptyString
          /\ CacheHitState # <<"true">>
          /\ pc = "idle"
          /\ LastEvent = "warning"
          /\ CountCurrent("warning") = 1
          /\ Count("saveCache") = 0
          /\ ~InCurrent("setFailed")
          /\ remoteCache = cacheAtRunStart

(* A non-empty install path that cannot be read was met in the post phase. *)
C7_Witness ==
    /\ Dispatched = "post"
    /\ probe # NoProbe
    /\ probe.path # EmptyString
    /\ ~probe.readable
    /\ LastEvent = "warning"

(* The main phase of the current run ended with isPost persisted. *)
MainSucceeded == Happened("saveState isPost")

(* Where that main phase began. *)
MainStart ==
    LET starts == {i \in 1..Len(events) : events[i] = "setup"}
    IN  IF starts = {} THEN 0 ELSE CHOOSE i \in starts : \A j \in starts : j <= i

EditorCallsOfMain ==
    LET first == MainStart
    IN  Cardinality({i \in first + 1..Len(events) : events[i] = "GetEditor"})

(* C8 as stated: after an earlier run saved under the primary key, a later *)
(* run with the same inputs reports a hit, makes no installer call for the *)
(* requested versions, and saves nothing.                                  *)
C8_AsStated ==
    (run > 1 /\ PrimaryKey \in cacheAtRunStart /\ MainSucceeded
             /\ cacheInstallationInput(cacheInstallation))
       => /\ CacheHitState = <<"true">>
          /\ EditorCallsOfMain = 0
          /\ Count("saveCache") = 0

(* C8, amended: after an earlier run saved under the primary key, a later  *)
(* run with the same inputs whose restore call returns that key persists   *)
(* cache-hit = "true" and its post phase saves nothing; the main phase     *)
(* still calls the installer once for every requested version.             *)
C8_HitAfterPriorSave ==
    (run > 1 /\ restoreKey = PrimaryKey)
       => /\ PrimaryKey \in cacheAtRunStart
          /\ CacheHitState = <<"true">>
          /\ Count("saveCache") = 0
          /\ remoteCache = cacheAtRunStart
          /\ MainSucceeded => EditorCallsOfMain = Len(versions)

(* A later run hit the key an earlier run saved, and finished its post phase. *)
C8_Witness ==
    /\ run > 1
    /\ restoreKey = PrimaryKey
    /\ PrimaryKey \in cacheAtRunStart
    /\ Len(versions) > 0
    /\ Dispatched = "post"
    /\ pc = "idle"

(* C9 as stated: every main-phase invocation persists cache-key; here for *)
(* the ones that even end successfully.                                    *)
C9_AsStated ==
    (Dispatched = "setup" /\ InCurrent("saveState isPost"))
       => /\ InCurrent("saveState cache-key")
          /\ CacheKeyState = PrimaryKey

(* C9, amended: a main-phase invocation persists cache-key := primaryKey   *)
(* exactly when the cache-installation input is 'true' in any letter case  *)
(* and the steps before the cache block did not fail; it then does so      *)
(* before the restore call is issued and before cache-hit is written,      *)
(* whatever the restore call answers.  Otherwise no cache-key is written.  *)
C9_CacheKeyBeforeRestore ==
    LET cur      == Current
        keySaved == \E j \in cur : events[j] = "saveState cache-key"
        caching  == toLowerCase(cacheInstallation) = "true"
    IN  /\ pc = "restore"
              => /\ CacheKeyState = PrimaryKey
                 /\ keySaved
                 /\ \A i \in cur :
                       events[i] \notin {"restoreCache", "saveState cache-hit"}
        /\ \A i \in cur :
              events[i] \in {"restoreCache", "saveState cache-hit"}
                 => \E j \in cur : j < i /\ events[j] = "saveState cache-key"
        /\ (pc = "editors" \/ LastEvent = "saveState isPost")
              => (keySaved <=> caching)
        /\ Happened("saveState cache-key") <=> "cache-key" \in DOMAIN state
        /\ "cache-key" \in DOMAIN state
              => /\ state["cache-key"] = PrimaryKey
                 /\ caching

(* The main phase has written cache-key and is about to call restoreCache. *)
C9_Witness ==
    /\ pc = "restore"
    /\ CacheKeyState = PrimaryKey
    /\ "cache-hit" \notin DOMAIN state

(* C10: an invocation runs the post phase exactly when isPost is "true" in *)
(* the store it starts with.  isPost is written only by a main phase that  *)
(* ends without failure, as "true" and as its last state write (nothing    *)
(* follows it in that invocation); a main phase that fails leaves isPost   *)
(* unset; the post phase writes no state at all.                           *)
C10_IsPostProtocol ==
    LET n         == Len(events)
        first     == LastStart
        phase     == IF first = 0 THEN "none" ELSE events[first]
        failed    == first > 0 /\ \E i \in first..n : events[i] = "setFailed"
        written   == {i \in 1..n : events[i] = "saveState isPost"}
    IN  /\ first > 0
              => (phase = "post" <=> getState(startState, "isPost") = <<"true">>)
        /\ "isPost" \in DOMAIN state <=> written # {}
        /\ "isPost" \in DOMAIN state => state["isPost"] = <<"true">>
        /\ (phase = "setup" /\ pc = "idle")
              => (failed <=> LastEvent # "saveState isPost")
        /\ \A i \in written :
              /\ i = n \/ events[i + 1] = "post"
              /\ \A j \in i + 1..n : events[j] \notin StateWrites
        /\ (phase = "setup" /\ failed) => "isPost" \notin DOMAIN state
        /\ phase = "post"
              => /\ state = startState
                 /\ \A i \in first..n : events[i] \notin StateWrites

(* The post phase ran, after a main phase that persisted isPost. *)
C10_Witness ==
    /\ Dispatched = "post"
    /\ pc = "idle"
    /\ IsPostState = <<"true">>
    /\ getState(startState, "isPost") = <<"true">>

(* C11 as stated: a main phase makes exactly one restore call and no save *)
(* call (here: a main phase that ended successfully), the post phase makes *)
(* at most one save call and no restore call, and the store holds no key   *)
(* other than isPost, cache-key and cache-hit.                             *)
C11_AsStated ==
    /\ (Dispatched = "setup" /\ LastEvent = "saveState isPost")
          => /\ CountCurrent("restoreCache") = 1
             /\ CountCurrent("saveCache") = 0
    /\ Dispatched = "post"
          => /\ CountCurrent("saveCache") <= 1
             /\ CountCurrent("restoreCache") = 0
    /\ DOMAIN state \subseteq {"isPost", "cache-key", "cache-hit"}

(* C11, amended: each main-phase invocation makes at most one restore call *)
(* and never a save call; it makes exactly one when the cache-installation *)
(* input is 'true' (in any letter case) and the steps before the cache     *)
(* block did not fail, and none otherwise.  The post phase makes at most   *)
(* one save call, none when it skips (no cache-key, cache hit, invalid     *)
(* path), and never a restore call.  The store holds no key other than     *)
(* isPost, cache-key and cache-hit.                                        *)
C11_CacheCallsPerPhase ==
    LET cur      == Current
        restores == Cardinality({i \in cur : events[i] = "restoreCache"})
        saves    == Cardinality({i \in cur : events[i] = "saveCache"})
        phase    == Dispatched
    IN  /\ phase = "setup"
              => /\ saves = 0
                 /\ restores <= 1
                 /\ (pc = "editors" \/ LastEvent = "saveState isPost")
                       => (restores = 1 <=> toLowerCase(cacheInstallation) = "true")
                 /\ pc \in {"validate", "hub", "setpath", "getpath", "restore"}
                       => restores = 0
        /\ phase = "post"
              => /\ saves <= 1
                 /\ restores = 0
                 /\ LastEvent \in {"no cache key", "cache hit", "warning"}
                       => saves = 0
        /\ DOMAIN state \subseteq {"isPost", "cache-key", "cache-hit"}

(* A run that restored once in its main phase and saved once in its post   *)
(* phase, with all three keys in the store.                                *)
C11_Witness ==
    /\ Dispatched = "post"
    /\ pc = "idle"
    /\ Count("restoreCache") = 1
    /\ Count("saveCache") = 1
    /\ DOMAIN state = {"isPost", "cache-key", "cache-hit"}

----------------------------------------------------------------------------
(* The key builder on its own: getInstallationCacheKey applied to inputs   *)
(* drawn from richer sets than the runs above use, among them names that   *)
(* contain the separator.                                                  *)

MaxKeyVersions == 2

MaxKeyModules == 2

KeyPlatforms == {"linux", "win32"}

KeyVersionNames == {<<"2021.3">>, <<"6000.0">>}

KeyModuleNames == {<<"android">>, <<"ios">>, <<"ios", "-", "ios">>}

KeysInit ==
    /\ platform \in KeyPlatforms
    /\ versions \in SeqsUpTo(KeyVersionNames, MaxKeyVersions)
    /\ modules \in SeqsUpTo(KeyModuleNames, MaxKeyModules)
    /\ pc = "key"
    /\ cacheKey = NoKeys
    /\ run = 1
    /\ entry = "main"
    /\ cacheInstallation = "true"
    /\ state = NoState
    /\ remoteCache = {}
    /\ cacheAtRunStart = {}
    /\ unityProjectPath = Undefined
    /\ unityInstallPath = EmptyString
    /\ installedEditors = 0
    /\ startState = NoState
    /\ restoreKey = NotCalled
    /\ probe = NoProbe
    /\ events = <<>>
    /\ lastCall = NoCall

(* line 93: const cacheKey = getInstallationCacheKey(versions, modules) *)
KeysBuild ==
    /\ pc = "key"
    /\ cacheKey' = getInstallationCacheKey(platform, versions, modules)
    /\ pc' = "built"
    /\ UNCHANGED <<run, entry, inputVars, state, remoteCache, unityProjectPath,
                   unityInstallPath, installedEditors, startState, restoreKey,
                   probe, events, lastCall>>

SpecKeys == KeysInit /\ [][KeysBuild]_vars

(* C12 as stated: for every input, restoreKeys has len(versions) +         *)
(* len(modules) entries and its last entry is the primary key.             *)
C12_AsStated ==
    pc = "built"
       => LET keys == cacheKey.restoreKeys
          IN  /\ Len(keys) = Len(versions) + Len(modules)
              /\ Len(keys) > 0
              /\ keys[Len(keys)] = cacheKey.primaryKey

(* C12, amended: restoreKeys has exactly len(versions) + len(modules)      *)
(* entries; when at least one version or module is given its last entry is *)
(* the primary key, and when none is given restoreKeys is empty and the    *)
(* primary key is the platform base key.                                   *)
C12_RestoreKeysShape ==
    pc = "built"
       => LET keys == cacheKey.restoreKeys
          IN  /\ Len(keys) = Len(versions) + Len(modules)
              /\ Len(keys) > 0 => keys[Len(keys)] = cacheKey.primaryKey
              /\ Len(keys) = 0 => cacheKey.primaryKey = <<"unity-setup-", platform>>

(* A key built from two versions and two modules. *)
C12_Witness ==
    /\ pc = "built"
    /\ Len(versions) = 2
    /\ Len(modules) = 2
    /\ Len(cacheKey.restoreKeys) = 4

(* The rearrangements of a list that differ from it as sequences. *)
Reorderings(list) ==
    LET n == Len(list)
    IN  {[i \in 1..n |-> list[f[i]]] : f \in Permutations(1..n)} \ {list}

(* C13: any reordering of the version list or of the module list yields a  *)
(* different primary key.                                                  *)
C13_ReorderingChangesKey ==
    pc = "built"
       => /\ \A vs \in Reorderings(versions) :
                getInstallationCacheKey(platform, vs, modules).primaryKey
                   # cacheKey.primaryKey
          /\ \A ms \in Reorderings(modules) :
                getInstallationCacheKey(platform, versions, ms).primaryKey
                   # cacheKey.primaryKey

(* The reference construction of section 6: the base key followed by "-"   *)
(* and the element, for each of the first k elements of the versions       *)
(* followed by the modules.                                                *)
RECURSIVE Reference(_, _, _)
Reference(plat, items, k) ==
    IF k = 0
    THEN <<"unity-setup-", plat>>
    ELSE Reference(plat, items, k - 1) \o <<"-">> \o items[k]

(* C14: the builder's result equals the reference construction: the        *)
(* primary key is the base key plus every version and module in order,     *)
(* restoreKeys[i] is the key after the first i elements, each entry        *)
(* strictly extends the one before it, and building again from the same    *)
(* inputs gives the same result.                                           *)
C14_EqualsReference ==
    pc = "built"
       => LET items == versions \o modules
              keys  == cacheKey.restoreKeys
          IN  /\ cacheKey.primaryKey = Reference(platform, items, Len(items))
              /\ Len(keys) = Len(items)
              /\ \A i \in 1..Len(keys) :
                    /\ keys[i] = Reference(platform, items, i)
                    /\ LET prev == IF i = 1 THEN <<"unity-setup-", platform>>
                                             ELSE keys[i - 1]
                       IN  /\ IsPrefix(prev, keys[i])
                           /\ Len(prev) < Len(keys[i])
              /\ getInstallationCacheKey(platform, versions, modules) = cacheKey

(* A key built from versions and modules together, one of them a name      *)
(* that holds the separator.                                               *)
C14_Witness ==
    /\ pc = "built"
    /\ Len(versions) = 2
    /\ versions[1] # versions[2]
    /\ modules = << <<"ios", "-", "ios">>, <<"android">> >>
    /\ Len(cacheKey.primaryKey) = 12

(* C15: the path validator never lets an exception escape and answers     *)
(* true exactly when the path is non-empty and the access probe succeeds:  *)
(* an empty or undefined path, and any failure of the probe, give false.   *)
(* Seen from the post phase right after the validator returned: the phase  *)
(* goes on to the save exactly in that case, ends with the warning in      *)
(* every other, and is never failed by the validator.                      *)
C15_ValidatorAnswer ==
    (lastCall.op = "GetInstallPath" /\ Dispatched = "post"
                                    /\ ~InCurrent("GetInstallPath throws"))
       => LET valid == /\ probe.path \notin {EmptyString, Undefined}
                       /\ probe.readable
          IN  /\ probe # NoProbe
              /\ ~InCurrent("setFailed")
              /\ isInstallationPathValid(probe.path, probe.readable) = valid
              /\ valid => pc = "save" /\ unityInstallPath = probe.path
              /\ ~valid => pc = "idle" /\ LastEvent = "warning"

(* The validator accepted a readable, non-empty path. *)
C15_Witness ==
    /\ Dispatched = "post"
    /\ lastCall.op = "GetInstallPath"
    /\ probe.path = <<"/opt/unity">>
    /\ probe.readable
    /\ pc = "save"

(* C16: the hub installer is called with auto-update enabled exactly when *)
(* the auto-update-hub input is 'true' and the hub-version input is empty; *)
(* an explicit hub version switches auto-update off and is passed to the   *)
(* installer unchanged.                                                    *)
C16_HubInstallArguments ==
    lastCall.op = "UnityHub.Install"
       => LET autoUpdate  == lastCall.args[1]
              hubVersion  == lastCall.args[2]
              passedFlag  == lastCall.args[3]
              passedVersion == lastCall.args[4]
          IN  /\ passedFlag <=> (autoUpdate = "true" /\ hubVersion = EmptyString)
              /\ passedVersion = hubVersion

(* The installer was called with auto-update asked for and a hub version   *)
(* pinned.                                                                 *)
C16_Witness ==
    /\ lastCall.op = "UnityHub.Install"
    /\ lastCall.args[1] = "true"
    /\ lastCall.args[2] = <<"3.12.0">>
    /\ lastCall.args[3] = FALSE
    /\ pc = "setpath"

(* C17: a save call is issued only in an invocation that started with    *)
(* isPost true, hence only in a run whose main phase installed every       *)
(* requested version without error; a failed or partial installation is    *)
(* never saved.                                                            *)
C17_SaveOnlyAfterCompleteInstall ==
    (pc = "save" \/ Happened("saveCache"))
       => /\ Dispatched = "post"
          /\ getState(startState, "isPost") = <<"true">>
          /\ MainSucceeded
          /\ Count("setup") = 1
          /\ Count("GetEditor") = Len(versions)
          /\ ~Happened("GetEditor throws")
          /\ ~Happened("CheckAndroidSdkInstalled throws")
          /\ ~Happened("installed count mismatch")
          /\ ~Happened("UnityHub.Install fails")
          /\ ~Happened("restoreCache throws")

(* The save call was made for a run that installed two versions. *)
C17_Witness ==
    /\ Happened("saveCache")
    /\ Len(versions) = 2
    /\ Count("GetEditor") = 2
    /\ PrimaryKey \in remoteCache

(* C18: in every state where isPost is true, cache-key and cache-hit are  *)
(* both present or both absent; when present, cache-key is the primary key *)
(* built from this run's inputs and cache-hit is "true" exactly when the   *)
(* restore call returned that primary key.                                 *)
C18_CacheStateAfterMain ==
    IsPostState = <<"true">>
       => /\ "cache-key" \in DOMAIN state <=> "cache-hit" \in DOMAIN state
          /\ "cache-key" \in DOMAIN state
                => /\ state["cache-key"] = PrimaryKey
                   /\ restoreKey # NotCalled
                   /\ state["cache-hit"] \in {<<"true">>, <<"false">>}
                   /\ state["cache-hit"] = <<"true">> <=> restoreKey = PrimaryKey
          /\ "cache-key" \notin DOMAIN state => restoreKey = NotCalled

(* isPost is true after a restore that fell back to a shorter key. *)
C18_Witness ==
    /\ IsPostState = <<"true">>
    /\ CacheKeyState = PrimaryKey
    /\ CacheHitState = <<"false">>
    /\ restoreKey \notin {NotCalled, Undefined, PrimaryKey}

(* C19 as stated: when the cache-installation input is not 'true', the   *)
(* main phase writes neither cache-key nor cache-hit and calls no restore, *)
(* the installer still runs for every requested version, isPost is         *)
(* persisted on success, and the post phase is a no-op that calls no save. *)
C19_AsStated ==
    cacheInstallation # "true"
       => LET phase == Dispatched
          IN  /\ "cache-key" \notin DOMAIN state
              /\ "cache-hit" \notin DOMAIN state
              /\ ~Happened("saveState cache-key")
              /\ ~Happened("saveState cache-hit")
              /\ ~Happened("restoreCache")
              /\ restoreKey = NotCalled
              /\ ~Happened("saveCache")
              /\ remoteCache = cacheAtRunStart
              /\ (phase = "setup" /\ pc = "idle" /\ ~InCurrent("setFailed"))
                    => /\ IsPostState = <<"true">>
                       /\ EditorCallsOfMain = Len(versions)
              /\ phase = "post"
                    => /\ pc \in {"post", "idle"}
                       /\ EditorCallsOfMain = Len(versions)
                       /\ pc = "idle" => /\ LastEvent = "no cache key"
                                         /\ CountCurrent("no cache key") = 1
                                         /\ ~InCurrent("setFailed")

(* C19, amended: the same, when the cache-installation input is not 'true' *)
(* in any letter case ('TRUE' and 'True' switch the cache on as 'true'     *)
(* does).                                                                  *)
C19_CachingOffIsFrameNeutral ==
    toLowerCase(cacheInstallation) # "true"
       => LET phase == Dispatched
          IN  /\ "cache-key" \notin DOMAIN state
              /\ "cache-hit" \notin DOMAIN state
              /\ ~Happened("saveState cache-key")
              /\ ~Happened("saveState cache-hit")
              /\ ~Happened("restoreCache")
              /\ restoreKey = NotCalled
              /\ ~Happened("saveCache")
              /\ remoteCache = cacheAtRunStart
              /\ (phase = "setup" /\ pc = "idle" /\ ~InCurrent("setFailed"))
                    => /\ IsPostState = <<"true">>
                       /\ EditorCallsOfMain = Len(versions)
              /\ phase = "post"
                    => /\ pc \in {"post", "idle"}
                       /\ EditorCallsOfMain = Len(versions)
                       /\ pc = "idle" => /\ LastEvent = "no cache key"
                                         /\ CountCurrent("no cache key") = 1
                                         /\ ~InCurrent("setFailed")

(* With caching off, two versions were installed and the post phase ended  *)
(* at its first check.                                                     *)
C19_Witness ==
    /\ cacheInstallation = "false"
    /\ Dispatched = "post"
    /\ pc = "idle"
    /\ LastEvent = "no cache key"
    /\ Len(versions) = 2
    /\ Count("GetEditor") = 2

====
